---- MODULE Spec2Model ----
(***************************************************************************)
(* Model of src/main.py: the MetashapeProcessor worker thread (the         *)
(* orthophoto pipeline run against the Metashape document) and the         *)
(* OrthophotoWidget that validates the user's input and starts it.         *)
(*                                                                         *)
(* Strings of the user interface are Russian in the source; the model      *)
(* carries English glosses, the source text is quoted in the comments.     *)
(***************************************************************************)
EXTENDS Integers, Sequences, FiniteSets, TLC

(* Bound: how many entries the images folder holds at most. *)
MaxFiles == 2

(* Bound: how many times the user presses the start button at most. *)
MaxStarts == 2

VARIABLES
    \* ---- environment: file system and platform
    imgDir,             \* the entries directly under the folder "/imgs"
    existing,           \* the paths os.path.exists answers True for
    caseSensitive,      \* whether Path.glob matches names case-sensitively
    \* ---- engine: Metashape.app.document and its chunk
    chunks,             \* len(doc.chunks)
    cameras,            \* chunk.cameras, each [path, reference_enabled]
    calls,              \* the engine operations invoked, in order
    \* ---- MetashapeProcessor (QThread)
    images_folder,      \* self.images_folder
    telemetry_file,     \* self.telemetry_file
    output_path,        \* self.output_path
    settings,           \* self.settings
    pc,                 \* position of run()
    output_file,        \* the local output_file of run()
    error,              \* str(e) of the exception run() is handling
    events,             \* the signals emitted, in order
    console,            \* what print() wrote
    \* ---- OrthophotoWidget
    images_folder_edit, \* text of the line edits
    telemetry_file_edit,
    output_folder_edit,
    w_settings,         \* OrthophotoWidget.settings
    settings_shared,    \* the processor's self.settings is that very dict
    start_btn,          \* start_btn.isEnabled()
    progress_bar,       \* [visible, value]
    status_label,       \* status_label.text()
    processor_thread,   \* <<>> for None, or <<the constructor arguments>>
    message_box,        \* the text of the QMessageBox shown last
    last_start,         \* what the last start_processing found and did
    starts,             \* how many times start_processing ran
    \* ---- show_orthophoto_dialog
    dialog_open,        \* dialog.exec_() is running
    reopened,           \* the dialog was shown again after a close
    runs_started,       \* how many MetashapeProcessor threads were started
    delivered           \* how many of the signals the widget's slots handled

envVars    == <<imgDir, existing, caseSensitive>>
engineVars == <<chunks, cameras, calls>>
procVars   == <<images_folder, telemetry_file, output_path, settings,
                pc, output_file, error, events, console>>
widgetVars == <<images_folder_edit, telemetry_file_edit, output_folder_edit,
                w_settings, settings_shared, start_btn, progress_bar,
                status_label, processor_thread, message_box, last_start, starts,
                dialog_open, reopened, runs_started, delivered>>
vars       == <<envVars, engineVars, procVars, widgetVars>>

----------------------------------------------------------------------------
(* Python helpers *)

None == "None"

(* bool(s) of an optional string: None and "" are falsy *)
Truthy(s) == s # None /\ s # ""

(* dict.get(key, default) *)
DictGet(d, k, default) == IF k \in DOMAIN d THEN d[k] ELSE default

(* str.strip() on the texts the model types into the line edits *)
Strip(s) == IF s = " " THEN "" ELSE s

----------------------------------------------------------------------------
(* File system *)

(* the extensions load_images and validate_inputs look for *)
supported_formats == <<".jpg", ".jpeg", ".tif", ".tiff", ".png">>

(* str.upper() / str.lower() on the extensions that occur *)
Upper(ext) ==
    CASE ext = ".jpg"  -> ".JPG"
      [] ext = ".jpeg" -> ".JPEG"
      [] ext = ".tif"  -> ".TIF"
      [] ext = ".tiff" -> ".TIFF"
      [] ext = ".png"  -> ".PNG"
      [] OTHER         -> ext

Lower(ext) ==
    CASE ext \in {".jpg", ".JPG", ".Jpg"} -> ".jpg"
      [] ext \in {".tiff", ".TIFF"}       -> ".tiff"
      [] ext \in {".png", ".PNG"}         -> ".png"
      [] ext \in {".txt", ".TXT"}         -> ".txt"
      [] OTHER                            -> ext

(* The directory entries the model draws the images folder from, in the    *)
(* order the operating system lists them.                                  *)
DirEntries ==
    << [name |-> "a", ext |-> ".jpg"],
       [name |-> "a", ext |-> ".JPG"],
       [name |-> "b", ext |-> ".Jpg"],
       [name |-> "c", ext |-> ".png"],
       [name |-> "e", ext |-> ".txt"] >>

EntrySet == {DirEntries[i] : i \in 1..Len(DirEntries)}

(* a case-insensitive file system holds one entry per case-folded name *)
FolderPossible(dir, cs) ==
    cs \/ \A e1, e2 \in dir :
            (e1.name = e2.name /\ Lower(e1.ext) = Lower(e2.ext)) => e1 = e2

Folders(cs) ==
    {d \in SUBSET EntrySet : Cardinality(d) <= MaxFiles /\ FolderPossible(d, cs)}

(* Path(folder).glob("*" + ext): the entries of the folder whose name ends *)
(* in ext; a folder that does not exist yields nothing.                    *)
Glob(folder, ext) ==
    IF folder = "/imgs"
    THEN SelectSeq(DirEntries,
                   LAMBDA e : /\ e \in imgDir
                              /\ IF caseSensitive THEN e.ext = ext
                                 ELSE Lower(e.ext) = Lower(ext))
    ELSE <<>>

(* str(path) *)
PathStr(folder, e) == folder \o "/" \o e.name \o e.ext

----------------------------------------------------------------------------
(* Signals of MetashapeProcessor *)

Progress(v)    == [sig |-> "progress_updated", num |-> v, ok |-> TRUE, msg |-> ""]
Status(m)      == [sig |-> "status_updated", num |-> 0, ok |-> TRUE, msg |-> m]
Finished(b, m) == [sig |-> "finished_successfully", num |-> 0, ok |-> b, msg |-> m]

(* An engine operation as the log records it: its name, its arguments, and *)
(* whether it returned (ok) or raised.                                     *)
Call(op, args, ok) == [op |-> op, args |-> args, ok |-> ok]

(* what an engine call may do: return, or raise with one of these texts *)
EngineErrors == {"engine error 1", "engine error 2"}
Returns      == "ok"
Outcomes     == {Returns} \cup EngineErrors

----------------------------------------------------------------------------
(* Settings *)

(* OrthophotoWidget.get_default_settings *)
get_default_settings ==
    [accuracy               |-> "HighAccuracy",
     dense_cloud_quality    |-> "MediumQuality",
     texture_size           |-> 4096,
     generic_preselection   |-> TRUE,
     reference_preselection |-> TRUE,
     adaptive_fitting       |-> TRUE,
     build_dense_cloud      |-> TRUE,
     telemetry_settings     |-> [delimiter |-> "\t",
                                 columns   |-> <<"n", "x", "y", "z">>,
                                 crs       |-> "EPSG::4326"]]

(* the default load_telemetry falls back to when the key is missing *)
default_telemetry_settings ==
    [delimiter |-> ",", columns |-> <<"n", "x", "y", "z">>, crs |-> "EPSG::4326"]

(* MetashapeProcessor.get_accuracy *)
accuracy_map == [HighAccuracy |-> 0, MediumAccuracy |-> 1, LowAccuracy |-> 2]
(* get_accuracy falling back to the MediumAccuracy entry *)
get_accuracy_fallback_medium(s) ==
    DictGet(accuracy_map, DictGet(s, "accuracy", "HighAccuracy"),
            accuracy_map["MediumAccuracy"])
get_accuracy(s) ==
    DictGet(accuracy_map, DictGet(s, "accuracy", "HighAccuracy"), 0)

(* MetashapeProcessor.get_quality *)
quality_map == [HighQuality |-> 1, MediumQuality |-> 2, LowQuality |-> 4]
get_quality(s) ==
    DictGet(quality_map, DictGet(s, "dense_cloud_quality", "MediumQuality"), 2)

(* MetashapeProcessor.get_downscale *)
get_downscale(level) == level

(* The column format strings the model enters, as sequences of characters: *)
(* well-formed ones, and malformed ones (empty, a repeated role letter, a  *)
(* character outside n x y z |).                                           *)
ColumnFormats ==
    { <<"n", "x", "y", "z">>,
      <<"n", "|", "x", "y", "z">>,
      <<"x", "y">>,
      <<>>,
      <<"n", "x", "x", "y">>,
      <<"n", "x", "q", "z">> }

TelemetrySettingsInputs ==
    {[delimiter |-> d, columns |-> c, crs |-> "EPSG::4326"] :
        d \in {",", "\t"}, c \in ColumnFormats}
    \cup {[delimiter |-> ";", columns |-> <<"n", "x", "y", "z">>, crs |-> "EPSG::3857"]}

(* The settings dictionaries a MetashapeProcessor is constructed with:     *)
(* what the dialogs produce, unrecognised enum texts, and dictionaries     *)
(* with keys missing.                                                      *)
SettingsInputs ==
    {[get_default_settings EXCEPT !.telemetry_settings = t] :
        t \in TelemetrySettingsInputs}
    \cup {[get_default_settings EXCEPT !.accuracy = a] :
            a \in {"HighAccuracy", "MediumAccuracy", "LowAccuracy", "HighestAccuracy"}}
    \cup {[get_default_settings EXCEPT !.dense_cloud_quality = q] :
            q \in {"HighQuality", "MediumQuality", "LowQuality", "UltraHighQuality"}}
    \cup {[get_default_settings EXCEPT !.generic_preselection = g,
                                       !.reference_preselection = ~g,
                                       !.adaptive_fitting = f,
                                       !.build_dense_cloud = f] :
            g \in BOOLEAN, f \in BOOLEAN}
    \cup {[accuracy |-> "LowAccuracy", dense_cloud_quality |-> "LowQuality"],
          [accuracy |-> "HighestAccuracy", dense_cloud_quality |-> "UltraHighQuality"],
          [texture_size |-> 2048]}

----------------------------------------------------------------------------
(* MetashapeProcessor: the methods run() calls.  Each takes what the method *)
(* reads and what the engine does with its call (r: Returns, or the text of *)
(* the exception the engine raises), and gives the engine calls it made and *)
(* exc, the str() of the exception it lets escape (None when it returns).   *)

RECURSIVE ImageList(_, _)
(* load_images, lines 162-164: image_list after the first i extensions *)
ImageList(folder, i) ==
    IF i = 0 THEN <<>>
    ELSE ImageList(folder, i - 1)
            \o Glob(folder, supported_formats[i])
            \o Glob(folder, Upper(supported_formats[i]))

RECURSIVE Dedup(_)
(* load_images, lines 166-169: keep the first occurrence of each str(image) *)
Dedup(list) ==
    IF list = <<>> THEN <<>>
    ELSE LET front == Dedup(SubSeq(list, 1, Len(list) - 1))
             last  == list[Len(list)]
         IN IF \E k \in 1..Len(front) : front[k] = last
            THEN front ELSE Append(front, last)

PhotoList(folder) ==
    LET image_list == ImageList(folder, Len(supported_formats))
    IN Dedup([k \in 1..Len(image_list) |-> PathStr(folder, image_list[k])])

(* load_images without the check of lines 171-172 *)
load_images_unchecked(folder, r) ==
    LET photo_list == PhotoList(folder)
    IN [calls  |-> <<Call("addPhotos", <<photo_list>>, r = Returns)>>,
        exc    |-> IF r = Returns THEN None ELSE r,
        photos |-> IF r = Returns THEN photo_list ELSE <<>>]

load_images(folder, r) ==
    LET photo_list == PhotoList(folder)
    IN IF photo_list = <<>>
       THEN [calls  |-> <<>>,
             exc    |-> "Images not found in folder: " \o folder,
             photos |-> <<>>]
       ELSE IF r = Returns
       THEN [calls  |-> <<Call("addPhotos", <<photo_list>>, TRUE)>>,
             exc    |-> None,
             photos |-> photo_list]
       ELSE [calls  |-> <<Call("addPhotos", <<photo_list>>, FALSE)>>,
             exc    |-> r,
             photos |-> <<>>]

(* load_telemetry without its try/except: the exception escapes *)
load_telemetry_uncaught(file, s, r) ==
    LET telemetry_settings ==
            DictGet(s, "telemetry_settings", default_telemetry_settings)
    IN [calls   |-> <<Call("importReference",
                           <<file, "ReferenceFormatCSV", telemetry_settings.columns,
                             telemetry_settings.delimiter, telemetry_settings.crs>>,
                           r = Returns)>>,
        exc     |-> IF r = Returns THEN None ELSE r,
        enable  |-> r = Returns,
        printed |-> <<>>]

(* load_telemetry with "except: pass": the failure leaves no trace *)
load_telemetry_silent(file, s, r) ==
    LET telemetry_settings ==
            DictGet(s, "telemetry_settings", default_telemetry_settings)
    IN [calls   |-> <<Call("importReference",
                           <<file, "ReferenceFormatCSV", telemetry_settings.columns,
                             telemetry_settings.delimiter, telemetry_settings.crs>>,
                           r = Returns)>>,
        exc     |-> None,
        enable  |-> r = Returns,
        printed |-> <<>>]

(* load_telemetry that drops the skipped columns ("|") from the format     *)
(* before handing it to the engine                                         *)
load_telemetry_drops_skips(file, s, r) ==
    LET telemetry_settings ==
            DictGet(s, "telemetry_settings", default_telemetry_settings)
        NotSkip(ch) == ch # "|"
    IN [calls   |-> <<Call("importReference",
                           <<file, "ReferenceFormatCSV",
                             SelectSeq(telemetry_settings.columns, NotSkip),
                             telemetry_settings.delimiter, telemetry_settings.crs>>,
                           r = Returns)>>,
        exc     |-> None,
        enable  |-> r = Returns,
        printed |-> IF r = Returns THEN <<>>
                    ELSE <<"Warning: could not load telemetry: " \o r>>]

(* load_telemetry catches every exception and prints a warning             *)
(* ("Предупреждение: Не удалось загрузить телеметрию: {e}")                *)
load_telemetry(file, s, r) ==
    LET telemetry_settings ==
            DictGet(s, "telemetry_settings", default_telemetry_settings)
        importReference(ok) ==
            Call("importReference",
                 <<file, "ReferenceFormatCSV", telemetry_settings.columns,
                   telemetry_settings.delimiter, telemetry_settings.crs>>, ok)
    IN IF r = Returns
       THEN [calls   |-> <<importReference(TRUE)>>,
             exc     |-> None,
             enable  |-> TRUE,
             printed |-> <<>>]
       ELSE [calls   |-> <<importReference(FALSE)>>,
             exc     |-> None,
             enable  |-> FALSE,
             printed |-> <<"Warning: could not load telemetry: " \o r>>]

match_photos(s, r) ==
    LET accuracy == get_accuracy(s)
    IN [calls |-> <<Call("matchPhotos",
                         <<get_downscale(accuracy),
                           DictGet(s, "generic_preselection", TRUE),
                           DictGet(s, "reference_preselection", TRUE)>>,
                         r = Returns)>>,
        exc   |-> IF r = Returns THEN None ELSE r]

align_photos(s, r) ==
    [calls |-> <<Call("alignCameras",
                      <<DictGet(s, "adaptive_fitting", TRUE)>>, r = Returns)>>,
     exc   |-> IF r = Returns THEN None ELSE r]

(* build_dense_cloud going on to buildPointCloud after buildDepthMaps failed *)
build_dense_cloud_continues(s, r1, r2) ==
    [calls |-> <<Call("buildDepthMaps",
                      <<get_downscale(get_quality(s)), "AggressiveFiltering">>,
                      r1 = Returns),
                 Call("buildPointCloud", <<"DepthMapsData">>, r2 = Returns)>>,
     exc   |-> IF r1 # Returns THEN r1 ELSE IF r2 # Returns THEN r2 ELSE None]

(* build_Ortofotoplan building the point cloud a second time first *)
build_Ortofotoplan_rebuilds(r) ==
    [calls |-> <<Call("buildPointCloud", <<"DepthMapsData">>, TRUE),
                 Call("buildOrthomosaic", <<"PointCloudData", TRUE>>, r = Returns)>>,
     exc   |-> IF r = Returns THEN None ELSE r]

(* build_dense_cloud doing nothing when the build_dense_cloud setting is   *)
(* False                                                                   *)
build_dense_cloud_optional(s, r1, r2) ==
    LET quality == get_quality(s)
        buildDepthMaps(ok) ==
            Call("buildDepthMaps",
                 <<get_downscale(quality), "AggressiveFiltering">>, ok)
    IN IF ~DictGet(s, "build_dense_cloud", TRUE)
       THEN [calls |-> <<>>, exc |-> None]
       ELSE IF r1 # Returns
       THEN [calls |-> <<buildDepthMaps(FALSE)>>, exc |-> r1]
       ELSE [calls |-> <<buildDepthMaps(TRUE),
                         Call("buildPointCloud", <<"DepthMapsData">>, r2 = Returns)>>,
             exc   |-> IF r2 = Returns THEN None ELSE r2]

(* two engine calls: r1 is what buildDepthMaps does, r2 buildPointCloud *)
build_dense_cloud(s, r1, r2) ==
    LET quality == get_quality(s)
        buildDepthMaps(ok) ==
            Call("buildDepthMaps",
                 <<get_downscale(quality), "AggressiveFiltering">>, ok)
    IN IF r1 # Returns
       THEN [calls |-> <<buildDepthMaps(FALSE)>>, exc |-> r1]
       ELSE [calls |-> <<buildDepthMaps(TRUE),
                         Call("buildPointCloud", <<"DepthMapsData">>, r2 = Returns)>>,
             exc   |-> IF r2 = Returns THEN None ELSE r2]

build_Ortofotoplan(r) ==
    [calls |-> <<Call("buildOrthomosaic", <<"PointCloudData", TRUE>>, r = Returns)>>,
     exc   |-> IF r = Returns THEN None ELSE r]

(* os.path.join *)
PathJoin(a, b) == IF a = "" THEN b ELSE a \o "/" \o b

(* export_orthophoto that returns the output folder instead of the file *)
export_orthophoto_returns_folder(out, r) ==
    LET file == PathJoin(out, "orthophoto.gpkg")
    IN [calls       |-> <<Call("exportRaster",
                               <<file, "OrthomosaicData", "GeoPackage",
                                 "RasterTransformNone", FALSE>>, r = Returns)>>,
        exc         |-> IF r = Returns THEN None ELSE r,
        output_file |-> IF r = Returns THEN out ELSE None]

export_orthophoto(out, r) ==
    LET file == PathJoin(out, "orthophoto.gpkg")
    IN [calls       |-> <<Call("exportRaster",
                               <<file, "OrthomosaicData", "GeoPackage",
                                 "RasterTransformNone", FALSE>>, r = Returns)>>,
        exc         |-> IF r = Returns THEN None ELSE r,
        output_file |-> IF r = Returns THEN file ELSE None]

----------------------------------------------------------------------------
(* MetashapeProcessor.run, one action per statement group of the try body  *)

(* a stage that emits its checkpoint whether or not the method raised *)
Stage_progress_always(m, res, p, next) ==
    /\ calls' = calls \o res.calls
    /\ events' = events \o <<Status(m), Progress(p)>>
    /\ IF res.exc = None
       THEN pc' = next /\ error' = error
       ELSE pc' = "except" /\ error' = res.exc

(* One stage of run(): status_updated.emit(m), the method call with result *)
(* res, then progress_updated.emit(p); an exception of the method skips    *)
(* the progress and enters the except clause.                              *)
Stage(m, res, p, next) ==
    /\ calls' = calls \o res.calls
    /\ IF res.exc = None
       THEN /\ events' = events \o <<Status(m), Progress(p)>>
            /\ pc' = next
            /\ error' = error
       ELSE /\ events' = events \o <<Status(m)>>
            /\ pc' = "except"
            /\ error' = res.exc

(* lines 104-111: "Создание нового chunk..." *)
CreateChunk ==
    /\ pc = "start"
    /\ IF chunks # 0
       THEN /\ events' = Append(events, Progress(5))
            /\ pc' = "load_images"
            /\ UNCHANGED <<chunks, calls, error>>
       ELSE \E r \in Outcomes :
            /\ calls' = Append(calls, Call("addChunk", <<>>, r = Returns))
            /\ IF r = Returns
               THEN /\ events' = events \o <<Status("Creating new chunk..."), Progress(5)>>
                    /\ chunks' = chunks + 1
                    /\ pc' = "load_images"
                    /\ error' = error
               ELSE /\ events' = events \o <<Status("Creating new chunk...")>>
                    /\ pc' = "except"
                    /\ error' = r
                    /\ UNCHANGED chunks
    /\ UNCHANGED <<envVars, widgetVars, cameras, images_folder, telemetry_file,
                   output_path, settings, output_file, console>>

(* lines 113-116: "Загрузка изображений..." *)
LoadImages ==
    /\ pc = "load_images"
    /\ \E r \in Outcomes :
         LET res == load_images(images_folder, r)
         IN /\ Stage("Loading images...", res, 15, "telemetry")
            /\ cameras' = cameras \o
                 [k \in 1..Len(res.photos) |->
                    [path |-> res.photos[k], reference_enabled |-> FALSE]]
    /\ UNCHANGED <<envVars, widgetVars, chunks, images_folder, telemetry_file,
                   output_path, settings, output_file, console>>

(* line 119: the condition of the telemetry stage *)
TelemetryGiven == Truthy(telemetry_file) /\ telemetry_file \in existing

(* lines 118-122: "Загрузка телеметрии..." *)
LoadTelemetry ==
    /\ pc = "telemetry"
    /\ TelemetryGiven
    /\ \E r \in Outcomes :
         LET res == load_telemetry(telemetry_file, settings, r)
         IN /\ Stage("Loading telemetry...", res, 20, "match")
            /\ console' = console \o res.printed
            /\ cameras' = IF res.enable
                          THEN [k \in 1..Len(cameras) |->
                                  [cameras[k] EXCEPT !.reference_enabled = TRUE]]
                          ELSE cameras
    /\ UNCHANGED <<envVars, widgetVars, chunks, images_folder, telemetry_file,
                   output_path, settings, output_file>>

(* skipping the telemetry stage skips the stage after it as well *)
SkipTelemetry_skips_match ==
    /\ pc = "telemetry"
    /\ ~TelemetryGiven
    /\ pc' = "align"
    /\ UNCHANGED <<envVars, widgetVars, engineVars, images_folder, telemetry_file,
                   output_path, settings, output_file, error, events, console>>

(* line 119 false: the stage is skipped *)
SkipTelemetry ==
    /\ pc = "telemetry"
    /\ ~TelemetryGiven
    /\ pc' = "match"
    /\ UNCHANGED <<envVars, widgetVars, engineVars, images_folder, telemetry_file,
                   output_path, settings, output_file, error, events, console>>

(* lines 124-127: "Поиск особых точек..." *)
MatchPhotos ==
    /\ pc = "match"
    /\ \E r \in Outcomes :
         Stage("Matching features...", match_photos(settings, r), 35, "align")
    /\ UNCHANGED <<envVars, widgetVars, chunks, cameras, images_folder,
                   telemetry_file, output_path, settings, output_file, console>>

(* lines 129-132: "Выравнивание фотографий..." *)
AlignPhotos ==
    /\ pc = "align"
    /\ \E r \in Outcomes :
         Stage("Aligning photos...", align_photos(settings, r), 50, "dense")
    /\ UNCHANGED <<envVars, widgetVars, chunks, cameras, images_folder,
                   telemetry_file, output_path, settings, output_file, console>>

(* lines 134-136: "Построение плотного облака точек..." *)
BuildDenseCloud ==
    /\ pc = "dense"
    /\ \E r1 \in Outcomes, r2 \in Outcomes :
         Stage("Building dense point cloud...",
               build_dense_cloud(settings, r1, r2), 70, "ortho")
    /\ UNCHANGED <<envVars, widgetVars, chunks, cameras, images_folder,
                   telemetry_file, output_path, settings, output_file, console>>

(* lines 138-141: "Построение Ортофотоплана..." *)
BuildOrtofotoplan ==
    /\ pc = "ortho"
    /\ \E r \in Outcomes :
         Stage("Building orthophoto...", build_Ortofotoplan(r), 85, "export")
    /\ UNCHANGED <<envVars, widgetVars, chunks, cameras, images_folder,
                   telemetry_file, output_path, settings, output_file, console>>

(* lines 144-147: "Экспорт ортофотоплана..." *)
ExportOrthophoto ==
    /\ pc = "export"
    /\ \E r \in Outcomes :
         LET res == export_orthophoto(output_path, r)
         IN /\ Stage("Exporting orthophoto...", res, 100, "finish")
            /\ output_file' = res.output_file
    /\ UNCHANGED <<envVars, widgetVars, chunks, cameras, images_folder,
                   telemetry_file, output_path, settings, console>>

(* lines 149-150: "Обработка завершена успешно!" *)
Finish ==
    /\ pc = "finish"
    /\ events' = events \o <<Status("Processing completed successfully!"),
                             Finished(TRUE, output_file)>>
    /\ pc' = "done"
    /\ UNCHANGED <<envVars, widgetVars, engineVars, images_folder, telemetry_file,
                   output_path, settings, output_file, error, console>>

(* line 153: error_msg = f"Ошибка обработки: {str(e)}" *)
error_msg(e) == "Processing error: " \o e

(* the except clause with a message that names the engine operation that   *)
(* raised                                                                  *)
HandleException_names_stage ==
    /\ pc = "except"
    /\ LET stage == IF calls # <<>> /\ ~calls[Len(calls)].ok
                    THEN calls[Len(calls)].op ELSE "load_images"
           msg   == "Processing error in " \o stage \o ": " \o error
       IN events' = events \o <<Status(msg), Finished(FALSE, msg)>>
    /\ pc' = "done"
    /\ UNCHANGED <<envVars, widgetVars, engineVars, images_folder, telemetry_file,
                   output_path, settings, output_file, error, console>>

(* the except clause emitting the outcome before the error status *)
HandleException_outcome_first ==
    /\ pc = "except"
    /\ events' = events \o <<Finished(FALSE, error_msg(error)),
                              Status(error_msg(error))>>
    /\ pc' = "done"
    /\ UNCHANGED <<envVars, widgetVars, engineVars, images_folder, telemetry_file,
                   output_path, settings, output_file, error, console>>

(* lines 152-155: error_msg = "Ошибка обработки: {str(e)}" *)
HandleException ==
    /\ pc = "except"
    /\ events' = events \o <<Status(error_msg(error)),
                              Finished(FALSE, error_msg(error))>>
    /\ pc' = "done"
    /\ UNCHANGED <<envVars, widgetVars, engineVars, images_folder, telemetry_file,
                   output_path, settings, output_file, error, console>>

Run ==
    \/ CreateChunk
    \/ LoadImages
    \/ LoadTelemetry
    \/ SkipTelemetry
    \/ MatchPhotos
    \/ AlignPhotos
    \/ BuildDenseCloud
    \/ BuildOrtofotoplan
    \/ ExportOrthophoto
    \/ Finish
    \/ HandleException

----------------------------------------------------------------------------
(* OrthophotoWidget as constructed: __init__ and init_ui *)
WidgetInit ==
    /\ images_folder_edit = ""
    /\ telemetry_file_edit = ""
    /\ output_folder_edit = ""
    /\ w_settings = get_default_settings
    /\ settings_shared = FALSE
    /\ start_btn = TRUE
    /\ progress_bar = [visible |-> FALSE, value |-> 0]
    /\ status_label = "Ready"
    /\ processor_thread = <<>>
    /\ message_box = None
    /\ last_start = [images |-> "", output |-> "", folder_exists |-> FALSE,
                     output_usable |-> FALSE, supported |-> 0,
                     valid |-> FALSE, started |-> FALSE]
    /\ starts = 0
    /\ delivered = 0

(* A MetashapeProcessor constructed with arguments of the caller's choice  *)
(* and started: the state when run() begins.                               *)
Init ==
    /\ caseSensitive \in BOOLEAN
    /\ imgDir \in Folders(caseSensitive)
    /\ existing = {"/imgs", "/out", "/out2", "/tele.csv"}
    /\ chunks \in {0, 1}
    /\ cameras = <<>>
    /\ calls = <<>>
    /\ images_folder = "/imgs"
    /\ telemetry_file \in {None, "", "/tele.csv", "/gone.csv"}
    /\ output_path \in {"/out", "/out2"}
    /\ settings \in SettingsInputs
    /\ pc = "start"
    /\ output_file = None
    /\ error = None
    /\ events = <<>>
    /\ console = <<>>
    /\ WidgetInit
    /\ dialog_open = FALSE
    /\ reopened = FALSE
    /\ runs_started = 0

Next == Run

Spec == Init /\ [][Next]_vars

----------------------------------------------------------------------------
(* The dialogs *)

(* dict[key] = value *)
DictSet(d, k, v) == [x \in DOMAIN d \cup {k} |-> IF x = k THEN v ELSE d[x]]

(* TelemetrySettingsDialog.get_settings: the combo texts mapped through    *)
(* delimiter_map and crs_map, the column format as typed                   *)
delimiter_map ==
    (", (comma)" :> ",") @@ ("; (semicolon)" :> ";")
        @@ ("\t (tab)" :> "\t") @@ ("Space" :> " ")
crs_map ==
    ("EPSG::4326 (WGS 84)" :> "EPSG::4326")
        @@ ("EPSG::3857 (Web Mercator)" :> "EPSG::3857")
        @@ ("EPSG::32637 (WGS 84 / UTM zone 37N)" :> "EPSG::32637")
        @@ ("Other..." :> "EPSG::4326")
TelemetrySettingsDialog_get_settings(delimiter_text, crs_text, columns_text) ==
    [delimiter |-> delimiter_map[delimiter_text],
     columns   |-> columns_text,
     crs       |-> crs_map[crs_text]]

(* int() of the texts of texture_size_combo *)
ToInt(text) ==
    CASE text = "2048"  -> 2048
      [] text = "4096"  -> 4096
      [] text = "8192"  -> 8192
      [] text = "16384" -> 16384

(* OrthophotoSettingsDialog.get_settings, of the state d of its widgets *)
OrthophotoSettingsDialog_get_settings(d) ==
    [accuracy               |-> d.accuracy_combo,
     dense_cloud_quality    |-> d.quality_combo,
     texture_size           |-> ToInt(d.texture_size_combo),
     generic_preselection   |-> d.generic_preselection_cb,
     reference_preselection |-> d.reference_preselection_cb,
     adaptive_fitting       |-> d.adaptive_fitting_cb,
     build_dense_cloud      |-> d.build_dense_cloud_cb]

(* what the user may leave the settings dialog with *)
SettingsDialogInputs ==
    {[accuracy_combo            |-> IF b THEN "HighAccuracy" ELSE "LowAccuracy",
      quality_combo             |-> "MediumQuality",
      texture_size_combo        |-> "4096",
      generic_preselection_cb   |-> TRUE,
      reference_preselection_cb |-> TRUE,
      adaptive_fitting_cb       |-> TRUE,
      build_dense_cloud_cb      |-> b] : b \in BOOLEAN}

----------------------------------------------------------------------------
(* OrthophotoWidget *)

(* what the user may type into the line edits *)
ImagesTexts    == {"", " ", "/imgs", "/missing"}
OutputTexts    == {"", "/out", "/new", "/ro/new"}
TelemetryTexts == {"", "/tele.csv"}

(* os.makedirs succeeds for this path and raises for the others *)
Creatable(path) == path = "/new"

(* validate_inputs with the image check as it was meant: the warning, and  *)
(* then True all the same                                                  *)
validate_inputs_no_return(images_text, output_text) ==
    IF Strip(images_text) = ""
    THEN [ok |-> FALSE, box |-> "Select the images folder!", made |-> {}]
    ELSE IF images_text \notin existing
    THEN [ok |-> FALSE, box |-> "The images folder does not exist!", made |-> {}]
    ELSE IF Strip(output_text) = ""
    THEN [ok |-> FALSE, box |-> "Select the output folder!", made |-> {}]
    ELSE IF output_text \notin existing /\ ~Creatable(output_text)
    THEN [ok |-> FALSE, box |-> "Could not create the output folder!", made |-> {}]
    ELSE [ok   |-> TRUE,
          box  |-> IF Len(ImageList(images_text, Len(supported_formats))) = 0
                   THEN "The folder holds no supported images!" ELSE None,
          made |-> {output_text} \ existing]

(* validate_inputs, lines 493-506: the loop over supported_formats.  The   *)
(* return False of line 504 stands in the loop body, after the if: the     *)
(* first pass through the body (ext = ".jpg") returns False whatever       *)
(* image_count is, and the return True of line 506 is reached only for an  *)
(* empty supported_formats.                                                *)
image_check(images_folder_text) ==
    IF Len(supported_formats) = 0
    THEN [ok |-> TRUE, box |-> None]
    ELSE LET ext == supported_formats[1]
             image_count == 0 + Len(Glob(images_folder_text, ext))
                              + Len(Glob(images_folder_text, Upper(ext)))
         IN [ok  |-> FALSE,
             box |-> IF image_count = 0
                     THEN "The folder holds no supported images!" ELSE None]

(* validate_inputs: the value returned, the QMessageBox.warning shown and  *)
(* the directory os.makedirs made                                          *)
validate_inputs(images_text, output_text) ==
    IF Strip(images_text) = ""
    THEN [ok |-> FALSE, box |-> "Select the images folder!", made |-> {}]
    ELSE IF images_text \notin existing
    THEN [ok |-> FALSE, box |-> "The images folder does not exist!", made |-> {}]
    ELSE IF Strip(output_text) = ""
    THEN [ok |-> FALSE, box |-> "Select the output folder!", made |-> {}]
    ELSE IF output_text \notin existing /\ ~Creatable(output_text)
    THEN [ok |-> FALSE, box |-> "Could not create the output folder!", made |-> {}]
    ELSE [ok   |-> image_check(images_text).ok,
          box  |-> image_check(images_text).box,
          made |-> {output_text} \ existing]

(* select_images_folder: QFileDialog gives a directory, or "" on cancel *)
select_images_folder ==
    /\ dialog_open
    /\ \E folder \in {"", "/imgs", "/out"} :
         images_folder_edit' = IF folder # "" THEN folder ELSE images_folder_edit
    /\ UNCHANGED <<envVars, engineVars, procVars, telemetry_file_edit,
                   output_folder_edit, w_settings, start_btn, progress_bar,
                   status_label, processor_thread, message_box, last_start, starts,
                   dialog_open, reopened, runs_started, settings_shared,
                   delivered>>

(* select_telemetry_file *)
select_telemetry_file ==
    /\ dialog_open
    /\ \E file \in {"", "/tele.csv"} :
         telemetry_file_edit' = IF file # "" THEN file ELSE telemetry_file_edit
    /\ UNCHANGED <<envVars, engineVars, procVars, images_folder_edit,
                   output_folder_edit, w_settings, start_btn, progress_bar,
                   status_label, processor_thread, message_box, last_start, starts,
                   dialog_open, reopened, runs_started, settings_shared,
                   delivered>>

(* select_output_folder *)
select_output_folder ==
    /\ dialog_open
    /\ \E folder \in {"", "/out"} :
         output_folder_edit' = IF folder # "" THEN folder ELSE output_folder_edit
    /\ UNCHANGED <<envVars, engineVars, procVars, images_folder_edit,
                   telemetry_file_edit, w_settings, start_btn, progress_bar,
                   status_label, processor_thread, message_box, last_start, starts,
                   dialog_open, reopened, runs_started, settings_shared,
                   delivered>>

(* the user types into one of the three QLineEdit (lines 353, 365, 382) *)
TypeText ==
    /\ dialog_open
    /\ \/ /\ images_folder_edit' \in ImagesTexts
          /\ UNCHANGED <<telemetry_file_edit, output_folder_edit>>
       \/ /\ telemetry_file_edit' \in TelemetryTexts
          /\ UNCHANGED <<images_folder_edit, output_folder_edit>>
       \/ /\ output_folder_edit' \in OutputTexts
          /\ UNCHANGED <<images_folder_edit, telemetry_file_edit>>
    /\ UNCHANGED <<envVars, engineVars, procVars, w_settings, start_btn,
                   progress_bar, status_label, processor_thread, message_box,
                   last_start, starts,
                   dialog_open, reopened, runs_started, settings_shared,
                   delivered>>

(* open_settings updating the dictionary in place (self.settings.update):  *)
(* a processor that holds the same dictionary sees the new values          *)
open_settings_in_place ==
    /\ dialog_open
    /\ \E accepted \in BOOLEAN, d \in SettingsDialogInputs :
         LET new     == OrthophotoSettingsDialog_get_settings(d)
             updated == [k \in DOMAIN w_settings \cup DOMAIN new |->
                            IF k \in DOMAIN new THEN new[k] ELSE w_settings[k]]
         IN /\ w_settings' = IF accepted THEN updated ELSE w_settings
            /\ settings' = IF accepted /\ settings_shared THEN updated ELSE settings
    /\ UNCHANGED <<envVars, engineVars, images_folder, telemetry_file, output_path,
                   pc, output_file, error, events, console, images_folder_edit,
                   telemetry_file_edit, output_folder_edit, start_btn, progress_bar,
                   status_label, processor_thread, message_box, last_start, starts,
                   dialog_open, reopened, runs_started, settings_shared,
                   delivered>>

(* open_settings: the dialog accepted replaces self.settings by the        *)
(* dictionary of get_settings                                              *)
open_settings ==
    /\ dialog_open
    /\ \E accepted \in BOOLEAN, d \in SettingsDialogInputs :
         /\ w_settings' = IF accepted THEN OrthophotoSettingsDialog_get_settings(d)
                          ELSE w_settings
         /\ settings_shared' = (settings_shared /\ ~accepted)
    /\ UNCHANGED <<envVars, engineVars, procVars, images_folder_edit,
                   telemetry_file_edit, output_folder_edit, start_btn, progress_bar,
                   status_label, processor_thread, message_box, last_start, starts,
                   dialog_open, reopened, runs_started, delivered>>

(* the entries of the folder a line edit names *)
EntriesOf(text) == IF text = "/imgs" THEN imgDir ELSE {}

(* start_processing, the whole handler of the start button.  last_start    *)
(* keeps what it found (the texts, whether the folders were usable, how    *)
(* many entries of the images folder are images) and what it did.          *)
start_processing ==
    /\ dialog_open
    /\ start_btn
    /\ starts < MaxStarts
    /\ starts' = starts + 1
    /\ LET v     == validate_inputs(images_folder_edit, output_folder_edit)
           found == [images        |-> images_folder_edit,
                     output        |-> output_folder_edit,
                     folder_exists |-> images_folder_edit \in existing,
                     output_usable |-> output_folder_edit \in existing
                                          \/ Creatable(output_folder_edit),
                     supported     |-> Cardinality({e \in EntriesOf(images_folder_edit) :
                                                       \E k \in 1..Len(supported_formats) :
                                                          Lower(e.ext) = supported_formats[k]}),
                     valid         |-> v.ok,
                     started       |-> FALSE]
           file  == IF telemetry_file_edit # "" THEN telemetry_file_edit ELSE None
       IN /\ existing' = existing \cup v.made
          /\ message_box' = IF v.box # None THEN v.box ELSE message_box
          /\ IF ~v.ok
             THEN /\ console' = Append(console, "not Valid Inputs!")
                  /\ last_start' = found
                  /\ UNCHANGED <<w_settings, start_btn, progress_bar, status_label,
                                 processor_thread, images_folder, telemetry_file,
                                 output_path, settings, pc, runs_started,
                                 settings_shared>>
             ELSE \E accepted \in BOOLEAN,
                     delimiter_text \in DOMAIN delimiter_map,
                     columns_text \in ColumnFormats :
                  IF Truthy(file) /\ ~accepted
                  THEN /\ last_start' = found
                       /\ UNCHANGED <<w_settings, start_btn, progress_bar,
                                      status_label, processor_thread, images_folder,
                                      telemetry_file, output_path, settings, pc,
                                      console, runs_started, settings_shared>>
                  ELSE LET s == IF Truthy(file)
                                THEN DictSet(w_settings, "telemetry_settings",
                                             TelemetrySettingsDialog_get_settings(
                                                 delimiter_text,
                                                 "EPSG::4326 (WGS 84)",
                                                 columns_text))
                                ELSE w_settings
                       IN /\ w_settings' = s
                          /\ start_btn' = FALSE
                          /\ progress_bar' = [visible |-> TRUE, value |-> 0]
                          /\ status_label' = "Processing..."
                          /\ processor_thread' =
                                <<[images_folder  |-> images_folder_edit,
                                   telemetry_file |-> file,
                                   output_path    |-> output_folder_edit,
                                   settings       |-> s]>>
                          /\ images_folder' = images_folder_edit
                          /\ telemetry_file' = file
                          /\ output_path' = output_folder_edit
                          /\ settings' = s
                          /\ pc' = "start"
                          /\ runs_started' = runs_started + 1
                          /\ settings_shared' = TRUE
                          /\ last_start' = [found EXCEPT !.started = TRUE]
                          /\ UNCHANGED console
    /\ UNCHANGED <<imgDir, caseSensitive, engineVars, output_file, error, events,
                   images_folder_edit, telemetry_file_edit, output_folder_edit,
                   dialog_open, reopened, delivered>>

(* OrthophotoWidget.__init__ and init_ui (lines 337-414): the fields of a  *)
(* new widget                                                              *)
OrthophotoWidget_init ==
    /\ images_folder_edit' = ""
    /\ telemetry_file_edit' = ""
    /\ output_folder_edit' = ""
    /\ w_settings' = get_default_settings
    /\ settings_shared' = FALSE
    /\ start_btn' = TRUE
    /\ progress_bar' = [visible |-> FALSE, value |-> 0]
    /\ status_label' = "Ready"
    /\ processor_thread' = <<>>

(* show_orthophoto_dialog, from the menu: a new modal dialog with a new    *)
(* OrthophotoWidget in it, whatever an earlier dialog had started          *)
show_orthophoto_dialog ==
    /\ ~dialog_open
    /\ dialog_open' = TRUE
    /\ reopened' = TRUE
    /\ OrthophotoWidget_init
    /\ UNCHANGED <<envVars, engineVars, procVars, message_box, last_start, starts,
                   runs_started, delivered>>

(* the close button (dialog.close, line 589): exec_() returns and the      *)
(* dialog goes away with its widget, whose fields are left as those of a   *)
(* new widget; nothing stops or waits for a MetashapeProcessor             *)
close_dialog ==
    /\ dialog_open
    /\ dialog_open' = FALSE
    /\ OrthophotoWidget_init
    /\ UNCHANGED <<envVars, engineVars, procVars, message_box, last_start, starts,
                   reopened, runs_started, delivered>>

(* The dialog of show_orthophoto_dialog just opened: the widget as         *)
(* constructed, no MetashapeProcessor yet.                                 *)
InitGui ==
    /\ caseSensitive \in BOOLEAN
    /\ imgDir \in Folders(caseSensitive)
    /\ existing = {"/imgs", "/out", "/tele.csv", "/ro"}
    /\ chunks = 0
    /\ cameras = <<>>
    /\ calls = <<>>
    /\ images_folder = None
    /\ telemetry_file = None
    /\ output_path = None
    /\ settings = None
    /\ pc = "idle"
    /\ output_file = None
    /\ error = None
    /\ events = <<>>
    /\ console = <<>>
    /\ WidgetInit
    /\ dialog_open = TRUE
    /\ reopened = FALSE
    /\ runs_started = 0

NextGui ==
    \/ show_orthophoto_dialog
    \/ close_dialog
    \/ select_images_folder
    \/ select_telemetry_file
    \/ select_output_folder
    \/ TypeText
    \/ open_settings
    \/ start_processing

SpecGui == InitGui /\ [][NextGui]_vars

(* the signal the widget's slots handle next: the three connections of    *)
(* lines 541-543 hand the signals of the processor thread to the slots in *)
(* the order they were emitted                                             *)
SignalQueued(sig) ==
    /\ processor_thread # <<>>
    /\ delivered < Len(events)
    /\ events[delivered + 1].sig = sig

(* update_progress (lines 548-550) *)
update_progress ==
    /\ SignalQueued("progress_updated")
    /\ progress_bar' = [progress_bar EXCEPT !.value = events[delivered + 1].num]
    /\ delivered' = delivered + 1
    /\ UNCHANGED <<envVars, engineVars, procVars, images_folder_edit,
                   telemetry_file_edit, output_folder_edit, w_settings,
                   settings_shared, start_btn, status_label, processor_thread,
                   message_box, last_start, starts, dialog_open, reopened,
                   runs_started>>

(* line 554: message[:15] + "..." if len(message) > 15 else message *)
short_message(message) ==
    IF Len(message) > 15 THEN SubSeq(message, 1, 15) \o "..." ELSE message

(* update_status (lines 552-556): the text of the label; the tool tip is   *)
(* not modelled                                                            *)
update_status ==
    /\ SignalQueued("status_updated")
    /\ status_label' = short_message(events[delivered + 1].msg)
    /\ delivered' = delivered + 1
    /\ UNCHANGED <<envVars, engineVars, procVars, images_folder_edit,
                   telemetry_file_edit, output_folder_edit, w_settings,
                   settings_shared, start_btn, progress_bar, processor_thread,
                   message_box, last_start, starts, dialog_open, reopened,
                   runs_started>>

(* os.path.basename *)
basename(path) ==
    LET slashes == {i \in 1..Len(path) : SubSeq(path, i, i) = "/"}
    IN IF slashes = {} THEN path
       ELSE SubSeq(path, (CHOOSE i \in slashes : \A j \in slashes : j <= i) + 1,
                   Len(path))

(* processing_finished that enables the start button on success only *)
processing_finished_failure_keeps_disabled ==
    /\ SignalQueued("finished_successfully")
    /\ LET success == events[delivered + 1].ok
           message == events[delivered + 1].msg
       IN /\ start_btn' = success
          /\ progress_bar' = [progress_bar EXCEPT !.visible = FALSE]
          /\ message_box' = IF success
                            THEN "Orthophoto created! File: " \o basename(message)
                            ELSE "Error: " \o message
          /\ status_label' = IF success THEN "Ready" ELSE "Error"
    /\ delivered' = delivered + 1
    /\ UNCHANGED <<envVars, engineVars, procVars, images_folder_edit,
                   telemetry_file_edit, output_folder_edit, w_settings,
                   settings_shared, processor_thread, last_start, starts,
                   dialog_open, reopened, runs_started>>

(* processing_finished (lines 558-571), the message box included *)
processing_finished ==
    /\ SignalQueued("finished_successfully")
    /\ LET success == events[delivered + 1].ok
           message == events[delivered + 1].msg
       IN /\ start_btn' = TRUE
          /\ progress_bar' = [progress_bar EXCEPT !.visible = FALSE]
          /\ message_box' = IF success
                            THEN "Orthophoto created! File: " \o basename(message)
                            ELSE "Error: " \o message
          /\ status_label' = IF success THEN "Ready" ELSE "Error"
    /\ delivered' = delivered + 1
    /\ UNCHANGED <<envVars, engineVars, procVars, images_folder_edit,
                   telemetry_file_edit, output_folder_edit, w_settings,
                   settings_shared, processor_thread, last_start, starts,
                   dialog_open, reopened, runs_started>>

(* the supported images of a folder, by extension *)
SupportedIn(dir) ==
    {e \in dir : \E k \in 1..Len(supported_formats) :
                    Lower(e.ext) = supported_formats[k]}

(* The widget of an open dialog just after lines 526-546 of                *)
(* start_processing, taken as if validate_inputs had accepted the inputs:  *)
(* the button disabled, the bar shown, a MetashapeProcessor constructed    *)
(* with the widget's settings dictionary, connected and started. run(),    *)
(* the slots and the buttons of the widget interleave.                     *)
InitShared ==
    /\ caseSensitive = TRUE
    /\ imgDir \in {d \in Folders(caseSensitive) : SupportedIn(d) # {}}
    /\ existing = {"/imgs", "/out", "/tele.csv"}
    /\ chunks = 0
    /\ cameras = <<>>
    /\ calls = <<>>
    /\ images_folder = "/imgs"
    /\ telemetry_file \in {None, "/tele.csv"}
    /\ output_path = "/out"
    /\ w_settings \in {get_default_settings}
            \cup {OrthophotoSettingsDialog_get_settings(d) : d \in SettingsDialogInputs}
    /\ settings = w_settings
    /\ settings_shared = TRUE
    /\ pc = "start"
    /\ output_file = None
    /\ error = None
    /\ events = <<>>
    /\ console = <<>>
    /\ images_folder_edit = "/imgs"
    /\ telemetry_file_edit = IF telemetry_file = None THEN "" ELSE telemetry_file
    /\ output_folder_edit = "/out"
    /\ start_btn = FALSE
    /\ progress_bar = [visible |-> TRUE, value |-> 0]
    /\ status_label = "Processing..."
    /\ processor_thread = <<[images_folder  |-> images_folder,
                             telemetry_file |-> telemetry_file,
                             output_path    |-> output_path,
                             settings       |-> settings]>>
    /\ message_box = None
    /\ last_start = [images |-> "/imgs", output |-> "/out", folder_exists |-> TRUE,
                     output_usable |-> TRUE,
                     supported |-> Cardinality(SupportedIn(imgDir)),
                     valid |-> TRUE, started |-> TRUE]
    /\ starts = 1
    /\ dialog_open = TRUE
    /\ reopened = FALSE
    /\ runs_started = 1
    /\ delivered = 0

NextShared ==
    \/ Run
    \/ open_settings
    \/ update_progress
    \/ update_status
    \/ processing_finished
    \/ start_processing

SpecShared == InitShared /\ [][NextShared]_vars

----------------------------------------------------------------------------
(* Vocabulary of the properties *)

IsProgress(e) == e.sig = "progress_updated"
IsStatus(e)   == e.sig = "status_updated"
IsOutcome(e)  == e.sig = "finished_successfully"
IsSuccess(e)  == IsOutcome(e) /\ e.ok
IsFailure(e)  == IsOutcome(e) /\ ~e.ok

EventIdx == 1..Len(events)
CallIdx  == 1..Len(calls)

(* the run has ended with finished_successfully(True, ...) / (False, ...) *)
EndedInSuccess == pc = "done" /\ events # <<>> /\ IsSuccess(events[Len(events)])
EndedInFailure == pc = "done" /\ events # <<>> /\ IsFailure(events[Len(events)])

ProgressValues ==
    LET p == SelectSeq(events, IsProgress) IN [k \in 1..Len(p) |-> p[k].num]

(* the engine operations of the stages, in the order of the pipeline *)
StageOrder ==
    <<"addPhotos", "importReference", "matchPhotos", "alignCameras",
      "buildDepthMaps", "buildPointCloud", "buildOrthomosaic", "exportRaster">>
StageOps == {StageOrder[k] : k \in 1..Len(StageOrder)}
Rank(op) == CHOOSE k \in 1..Len(StageOrder) : StageOrder[k] = op

IsStageCall(c) == c.op \in StageOps
StageCalls     == SelectSeq(calls, IsStageCall)

(* the engine rejected the telemetry import *)
ImportRejected == \E k \in CallIdx : calls[k].op = "importReference" /\ ~calls[k].ok
(* every engine call other than the telemetry import returned *)
OthersReturned == \A k \in CallIdx : calls[k].op # "importReference" => calls[k].ok

(* an entry of the images folder with a recognized image extension *)
Recognized(e) ==
    \E k \in 1..Len(supported_formats) : Lower(e.ext) = supported_formats[k]

----------------------------------------------------------------------------
(* C1: in every run the progress values emitted are strictly increasing,   *)
(* 100 is emitted only in a run that ends with                             *)
(* finished_successfully(True, ...), and no progress_updated follows       *)
(* finished_successfully(False, ...).                                      *)
C1_ProgressIncreasing ==
    LET values == ProgressValues
    IN /\ \A k \in 1..(Len(values) - 1) : values[k] < values[k + 1]
       /\ (\E k \in 1..Len(values) : values[k] = 100)
            => /\ pc \in {"finish", "done"}
               /\ pc = "done" => EndedInSuccess
               /\ \A i \in EventIdx : ~IsFailure(events[i])
       /\ \A i \in EventIdx :
            IsFailure(events[i])
                => \A j \in (i + 1)..Len(events) : ~IsProgress(events[j])

(* a run with the telemetry stage ended in success, having gone through    *)
(* every checkpoint                                                        *)
C1_Witness ==
    /\ EndedInSuccess
    /\ ProgressValues = <<5, 15, 20, 35, 50, 70, 85, 100>>

(* C2: every run emits exactly one outcome event, success or failure, and  *)
(* it is the last event of the run; a run that has not ended stands at a   *)
(* statement of run().                                                     *)
C2_OneOutcomeLast ==
    LET outs == {i \in EventIdx : IsOutcome(events[i])}
    IN /\ Cardinality(outs) <= 1
       /\ \A i \in outs : i = Len(events) /\ pc = "done"
       /\ pc = "done" => Cardinality(outs) = 1
       /\ pc \in {"start", "load_images", "telemetry", "match", "align", "dense",
                 "ortho", "export", "finish", "except", "done"}

(* a failed run: the error status precedes the outcome, nothing follows it *)
C2_Witness ==
    /\ EndedInFailure
    /\ Len(events) >= 2
    /\ IsStatus(events[Len(events) - 1])
    /\ events[Len(events) - 1].msg = events[Len(events)].msg

(* C3: when the images folder holds no file with a recognized extension,   *)
(* the run ends in failure and no engine operation of any stage is called. *)
C3_NoImagesNoEngineCall ==
    (\A e \in imgDir : ~Recognized(e))
        => /\ StageCalls = <<>>
           /\ pc \in {"start", "load_images", "except", "done"}
           /\ pc = "done" => EndedInFailure

(* a folder with an entry, none an image, and the run over *)
C3_Witness ==
    /\ imgDir # {}
    /\ \A e \in imgDir : ~Recognized(e)
    /\ EndedInFailure
    /\ error = "Images not found in folder: /imgs"

(* C4: when importReference fails and every other engine call returns, the *)
(* run goes on to matchPhotos and ends with finished_successfully(True):   *)
(* a telemetry failure alone never gives finished_successfully(False).     *)
C4_TelemetryFailureNotFatal ==
    (ImportRejected /\ OthersReturned)
        => /\ pc # "except"
           /\ \A i \in EventIdx : ~IsFailure(events[i])
           /\ pc = "done" => EndedInSuccess
           /\ pc \notin {"telemetry", "match"}
                => \E k \in CallIdx : calls[k].op = "matchPhotos"

C4_Witness ==
    /\ ImportRejected
    /\ OthersReturned
    /\ EndedInSuccess
    /\ calls[Len(calls)].op = "exportRaster"

(* the texts load_telemetry prints when the import fails *)
WarningTexts == {"Warning: could not load telemetry: " \o e : e \in EngineErrors}

(* C5, as claimed: when the engine rejects the telemetry import, the       *)
(* status stream holds a warning about telemetry, after the status of the  *)
(* telemetry stage and before the status of the matching stage.            *)
C5_WarningInStatusStream ==
    (ImportRejected /\ \E j \in EventIdx : events[j] = Status("Matching features..."))
        => \E i, w, j \in EventIdx :
             /\ i < w /\ w < j
             /\ events[i] = Status("Loading telemetry...")
             /\ IsStatus(events[w]) /\ events[w].msg \in WarningTexts
             /\ events[j] = Status("Matching features...")

(* C5, amended: when the engine rejects the telemetry import, the warning  *)
(* about telemetry is printed to the console, once and with the engine's   *)
(* error text, and not emitted on status_updated: the status stream holds  *)
(* no warning, and the status of the telemetry stage is followed by        *)
(* progress 20 and then directly by the status of the matching stage.      *)
C5_WarningOnConsole ==
    ImportRejected
        => /\ Len(console) = 1 /\ console[1] \in WarningTexts
           /\ \A k \in CallIdx :
                (calls[k].op = "importReference" /\ ~calls[k].ok)
                    => \E e \in EngineErrors :
                         console[1] = "Warning: could not load telemetry: " \o e
           /\ \A w \in EventIdx : events[w].msg \notin WarningTexts
           /\ \A i \in EventIdx :
                events[i] = Status("Loading telemetry...")
                    => /\ i + 1 <= Len(events) /\ events[i + 1] = Progress(20)
                       /\ i + 2 <= Len(events)
                            => events[i + 2] = Status("Matching features...")

C5_Witness ==
    /\ ImportRejected
    /\ console # <<>>
    /\ \E j \in EventIdx : events[j] = Status("Matching features...")
    /\ EndedInSuccess

(* C6: when an engine call of a stage other than the telemetry import      *)
(* fails, no engine operation is invoked after it and the run emits        *)
(* finished_successfully(False, ...).                                      *)
C6_AbortOnEngineFailure ==
    \A k \in CallIdx :
        (~calls[k].ok /\ calls[k].op # "importReference")
            => /\ k = Len(calls)
               /\ pc \in {"except", "done"}
               /\ pc = "done" => EndedInFailure
               /\ \A i \in EventIdx : ~IsSuccess(events[i])

(* buildDepthMaps failed in the middle of the dense stage, the run is over *)
C6_Witness ==
    /\ calls # <<>>
    /\ calls[Len(calls)].op = "buildDepthMaps"
    /\ ~calls[Len(calls)].ok
    /\ EndedInFailure

(* C7: the engine stages are invoked in the fixed order addPhotos,         *)
(* [importReference], matchPhotos, alignCameras, buildDepthMaps,           *)
(* buildPointCloud, buildOrthomosaic, exportRaster, each at most once and  *)
(* only after every earlier stage that is not skipped returned; success is *)
(* emitted only after exportRaster returned.                               *)
C7_FixedStageOrder ==
    LET sc == StageCalls
    IN /\ \A i, j \in 1..Len(sc) : i < j => Rank(sc[i].op) < Rank(sc[j].op)
       /\ \A j \in 1..Len(sc) :
            \A r \in 1..(Rank(sc[j].op) - 1) :
                StageOrder[r] # "importReference"
                    => \E i \in 1..(j - 1) : sc[i].op = StageOrder[r] /\ sc[i].ok
       /\ (\E i \in EventIdx : IsSuccess(events[i]))
            => /\ sc # <<>>
               /\ sc[Len(sc)].op = "exportRaster"
               /\ sc[Len(sc)].ok

(* a successful run through all eight engine operations *)
C7_Witness ==
    /\ EndedInSuccess
    /\ [k \in 1..Len(StageCalls) |-> StageCalls[k].op] = StageOrder

(* the engine calls and checkpoints of a run in which every call returns,  *)
(* the telemetry stage left out                                            *)
CallsBesidesTelemetry ==
    load_images(images_folder, Returns).calls
        \o match_photos(settings, Returns).calls
        \o align_photos(settings, Returns).calls
        \o build_dense_cloud(settings, Returns, Returns).calls
        \o build_Ortofotoplan(Returns).calls
        \o export_orthophoto(output_path, Returns).calls
CheckpointsBesidesTelemetry == <<5, 15, 35, 50, 70, 85, 100>>

NotImport(c) == c.op # "importReference"
NotTwenty(v) == v # 20

(* C8: without a telemetry file (None or empty) importReference is never   *)
(* invoked and no camera reference flag is changed; the other stages are   *)
(* invoked in the same order, with the same engine parameters and the same *)
(* checkpoints, whether or not the telemetry stage runs.                   *)
C8_SkipDoesNotShift ==
    LET others == SelectSeq(StageCalls, NotImport)
        values == ProgressValues
        points == SelectSeq(values, NotTwenty)
        expect == CallsBesidesTelemetry
    IN /\ ~Truthy(telemetry_file)
            => /\ \A k \in CallIdx : calls[k].op # "importReference"
               /\ \A k \in 1..Len(cameras) : ~cameras[k].reference_enabled
               /\ \A i \in EventIdx : events[i] # Status("Loading telemetry...")
               /\ \A k \in 1..Len(values) : values[k] # 20
       /\ Len(others) <= Len(expect)
       /\ \A k \in 1..Len(others) :
            [others[k] EXCEPT !.ok = TRUE] = expect[k]
       /\ Len(points) <= Len(CheckpointsBesidesTelemetry)
       /\ \A k \in 1..Len(points) : points[k] = CheckpointsBesidesTelemetry[k]
       /\ EndedInSuccess
            => /\ Len(others) = Len(expect)
               /\ points = CheckpointsBesidesTelemetry

(* a run without telemetry file that ended in success *)
C8_Witness ==
    /\ telemetry_file = ""
    /\ EndedInSuccess
    /\ Len(StageCalls) = Len(StageOrder) - 1
    /\ cameras # <<>>

(* what C9 calls an input start_processing must reject *)
InputsRejectable(f) ==
    \/ Strip(f.images) = ""
    \/ ~f.folder_exists
    \/ Strip(f.output) = ""
    \/ ~f.output_usable
    \/ f.supported = 0

(* C9: start_processing creates and starts no MetashapeProcessor, and no   *)
(* event of a run is emitted, when the images folder is blank or does not  *)
(* exist, the output folder is blank or cannot be created, or the images   *)
(* folder holds no supported image; validate_inputs returns False.         *)
C9_InvalidInputsStartNothing ==
    (starts > 0 /\ InputsRejectable(last_start))
        => /\ ~last_start.valid
           /\ ~last_start.started
           /\ processor_thread = <<>>
           /\ pc = "idle"
           /\ events = <<>>
           /\ start_btn

(* the start button pressed on a folder that exists and holds no image,    *)
(* with a usable output folder: the warning is up, nothing was started     *)
C9_Witness ==
    /\ starts > 0
    /\ last_start.images = "/imgs"
    /\ last_start.supported = 0
    /\ last_start.output_usable
    /\ Strip(last_start.output) # ""
    /\ message_box = "The folder holds no supported images!"
    /\ processor_thread = <<>>
    /\ console # <<>>

(* a well-formed column format: not empty, over n x y z |, no role letter  *)
(* twice                                                                   *)
WellFormedColumns(c) ==
    /\ Len(c) > 0
    /\ \A i \in 1..Len(c) : c[i] \in {"n", "x", "y", "z", "|"}
    /\ \A i, j \in 1..Len(c) : (i < j /\ c[i] = c[j]) => c[i] = "|"

(* C10, as claimed: a malformed column format (empty, a role letter        *)
(* repeated, a character outside n x y z |) is rejected before the run and *)
(* never handed to the engine's importReference as its columns argument.   *)
C10_MalformedColumnsNeverImported ==
    \A k \in CallIdx :
        calls[k].op = "importReference" => WellFormedColumns(calls[k].args[3])

(* the column-role mapping a column format denotes, read off character by  *)
(* character: the pairs (column index from 0, role) of the characters that *)
(* are not "|", in order, and the number of columns                        *)
RECURSIVE RolePairs(_, _)
RolePairs(c, i) ==
    IF i > Len(c) THEN <<>>
    ELSE (IF c[i] = "|" THEN <<>> ELSE << <<i - 1, c[i]>> >>) \o RolePairs(c, i + 1)
ParseColumns(c) == [pairs |-> RolePairs(c, 1), count |-> Len(c)]

(* the column format the run was configured with *)
ConfiguredColumns ==
    DictGet(settings, "telemetry_settings", default_telemetry_settings).columns

ProjectNames == {"orthophoto", "survey"}

(* C12, as claimed: on success the payload of                              *)
(* finished_successfully(True, ...) is the path handed to exportRaster,    *)
(* and it is {output folder}/{project name}.gpkg, whatever the name of the *)
(* project.                                                                *)
C12_PathFromProjectName ==
    EndedInSuccess
        => LET p == events[Len(events)].msg
           IN /\ calls[Len(calls)].op = "exportRaster"
              /\ calls[Len(calls)].args[1] = p
              /\ \A n \in ProjectNames : p = PathJoin(output_path, n \o ".gpkg")

(* C12, amended: on success the payload of                                 *)
(* finished_successfully(True, ...) is the path handed to exportRaster,    *)
(* and it is {output folder}/orthophoto.gpkg: the file name is fixed, the  *)
(* path depends on the output folder alone.                                *)
C12_PayloadIsExportPath ==
    /\ \A k \in CallIdx :
         calls[k].op = "exportRaster"
            => calls[k].args[1] = PathJoin(output_path, "orthophoto.gpkg")
    /\ EndedInSuccess
        => LET p == events[Len(events)].msg
           IN /\ calls[Len(calls)].op = "exportRaster"
              /\ calls[Len(calls)].args[1] = p
              /\ p = PathJoin(output_path, "orthophoto.gpkg")

(* a successful run into the second output folder *)
C12_Witness ==
    /\ EndedInSuccess
    /\ output_path = "/out2"
    /\ events[Len(events)].msg = "/out2/orthophoto.gpkg"
    /\ calls[Len(calls)].args[1] = "/out2/orthophoto.gpkg"

(* the levels the run was configured with *)
ConfiguredAccuracy == DictGet(settings, "accuracy", "HighAccuracy")
ConfiguredQuality  == DictGet(settings, "dense_cloud_quality", "MediumQuality")

(* the tables of C13: accuracy Highest, High, Medium, Low and dense        *)
(* quality UltraHigh, High, Medium, Low, Lowest                            *)
DocumentedAccuracy ==
    [HighestAccuracy |-> 0, HighAccuracy |-> 1, MediumAccuracy |-> 2, LowAccuracy |-> 3]
DocumentedQuality ==
    [UltraHighQuality |-> 1, HighQuality |-> 2, MediumQuality |-> 4,
     LowQuality |-> 8, LowestQuality |-> 16]

(* C13, as claimed: for every level of the documented tables the downscale *)
(* handed to matchPhotos is the table's integer for the configured         *)
(* accuracy (Highest 0, High 1, Medium 2, Low 3) and the downscale handed  *)
(* to buildDepthMaps is the table's integer for the configured dense       *)
(* quality (UltraHigh 1, High 2, Medium 4, Low 8, Lowest 16).              *)
C13_DocumentedDownscale ==
    \A k \in CallIdx :
        /\ (calls[k].op = "matchPhotos"
                /\ ConfiguredAccuracy \in DOMAIN DocumentedAccuracy)
              => calls[k].args[1] = DocumentedAccuracy[ConfiguredAccuracy]
        /\ (calls[k].op = "buildDepthMaps"
                /\ ConfiguredQuality \in DOMAIN DocumentedQuality)
              => calls[k].args[1] = DocumentedQuality[ConfiguredQuality]

(* the configured level is not a key of the table *)
UnknownAccuracy == ConfiguredAccuracy \notin DOMAIN accuracy_map
UnknownQuality  == ConfiguredQuality \notin DOMAIN quality_map

(* C14, as claimed: with a level that is not in the table get_accuracy and *)
(* get_quality do not raise, the run does not fail on that account, and    *)
(* each hands the engine the downscale of the Medium level of its table.   *)
C14_UnknownLevelIsMedium ==
    /\ \A k \in CallIdx :
         /\ (calls[k].op = "matchPhotos" /\ UnknownAccuracy)
               => calls[k].args[1] = accuracy_map["MediumAccuracy"]
         /\ (calls[k].op = "buildDepthMaps" /\ UnknownQuality)
               => calls[k].args[1] = quality_map["MediumQuality"]
    /\ ((UnknownAccuracy \/ UnknownQuality)
            /\ PhotoList(images_folder) # <<>> /\ OthersReturned)
         => /\ pc # "except"
            /\ \A i \in EventIdx : ~IsFailure(events[i])

(* C14, amended: with a level that is not in the table get_accuracy and    *)
(* get_quality do not raise and the run does not fail on that account;     *)
(* matchPhotos gets downscale 0, the HighAccuracy entry of the accuracy    *)
(* table (the level also used when the key is missing), buildDepthMaps     *)
(* gets downscale 2, the MediumQuality entry of the quality table.         *)
C14_UnknownLevelFallsBack ==
    /\ \A k \in CallIdx :
         /\ (calls[k].op = "matchPhotos" /\ UnknownAccuracy)
               => /\ calls[k].args[1] = accuracy_map["HighAccuracy"]
                  /\ calls[k].args[1] = 0
         /\ (calls[k].op = "buildDepthMaps" /\ UnknownQuality)
               => /\ calls[k].args[1] = quality_map["MediumQuality"]
                  /\ calls[k].args[1] = 2
    /\ ((UnknownAccuracy \/ UnknownQuality)
            /\ PhotoList(images_folder) # <<>> /\ OthersReturned)
         => /\ pc # "except"
            /\ \A i \in EventIdx : ~IsFailure(events[i])

(* a run with both levels unknown went through matching and the dense     *)
(* stage and ended in success                                              *)
C14_Witness ==
    /\ ConfiguredAccuracy = "HighestAccuracy"
    /\ ConfiguredQuality = "UltraHighQuality"
    /\ EndedInSuccess
    /\ \E k \in CallIdx : calls[k].op = "matchPhotos" /\ calls[k].args[1] = 0
    /\ \E k \in CallIdx : calls[k].op = "buildDepthMaps" /\ calls[k].args[1] = 2

(* the MetashapeProcessor runs started and not yet at their outcome *)
ActiveRuns ==
    runs_started - Cardinality({i \in EventIdx : IsOutcome(events[i])})

FailedIn(op) ==
    /\ EndedInFailure
    /\ calls # <<>>
    /\ calls[Len(calls)].op = op
    /\ ~calls[Len(calls)].ok

(* C17, as claimed: the description of a fatal failure identifies the      *)
(* failing stage as well as the cause, so the description of a failure in  *)
(* a stage after image loading differs from the description the same       *)
(* engine error gives when it is addPhotos that raises it.                 *)
C17_DescriptionNamesStage ==
    \A op \in StageOps \ {"addPhotos", "importReference"} :
        FailedIn(op)
            => events[Len(events)].msg
                  # error_msg(load_images(images_folder, error).exc)

(* C17, amended: the description of a fatal failure is the fixed prefix    *)
(* followed by the text of the exception: it identifies the cause and not  *)
(* the stage, and an engine error gives the same description in whichever  *)
(* stage it is raised.                                                     *)
C17_DescriptionIsCauseOnly ==
    EndedInFailure
        => LET d == events[Len(events)].msg
           IN /\ d = error_msg(error)
              /\ (\E op \in StageOps : FailedIn(op)) => error \in EngineErrors
              /\ d \in {error_msg(e) : e \in EngineErrors}
                        \cup {error_msg("Images not found in folder: " \o images_folder)}

(* alignCameras raised the first engine error: the description is the one  *)
(* that error has in every stage                                           *)
C17_Witness ==
    /\ FailedIn("alignCameras")
    /\ error = "engine error 1"
    /\ events[Len(events)].msg = "Processing error: engine error 1"

(* C18, as claimed: the list handed to addPhotos holds every file directly *)
(* under the images folder whose extension is .jpg, .jpeg, .tif, .tiff or  *)
(* .png compared without regard to case (".Jpg" included), each exactly    *)
(* once, and nothing else; a folder with such a file is not taken to be    *)
(* empty.                                                                  *)
C18_EveryImageOnce ==
    LET images == {PathStr(images_folder, e) : e \in {f \in imgDir : Recognized(f)}}
    IN /\ \A k \in CallIdx :
            calls[k].op = "addPhotos"
                => LET photo_list == calls[k].args[1]
                   IN /\ \A p \in images :
                            Cardinality({i \in 1..Len(photo_list) :
                                            photo_list[i] = p}) = 1
                      /\ \A i \in 1..Len(photo_list) : photo_list[i] \in images
       /\ images # {} => error # "Images not found in folder: " \o images_folder

(* the engine operations of the stage a checkpoint belongs to *)
CheckpointOps(v) ==
    CASE v = 5   -> {"addChunk"}
      [] v = 15  -> {"addPhotos"}
      [] v = 20  -> {"importReference"}
      [] v = 35  -> {"matchPhotos"}
      [] v = 50  -> {"alignCameras"}
      [] v = 70  -> {"buildDepthMaps", "buildPointCloud"}
      [] v = 85  -> {"buildOrthomosaic"}
      [] v = 100 -> {"exportRaster"}
      [] OTHER   -> {}

(* the operation was invoked (addChunk is not, when the document has a     *)
(* chunk)                                                                  *)
Invoked(op) == op = "addChunk" \/ \E k \in CallIdx : calls[k].op = op
(* no invocation of the operation failed *)
Succeeded(op) == \A k \in CallIdx : calls[k].op = op => calls[k].ok

(* C19, as claimed: a checkpoint is emitted only if the engine operations  *)
(* of its stage were invoked and succeeded; in particular 20 is not        *)
(* emitted when importReference failed, and a failing run has no           *)
(* checkpoint beyond its last successful stage.                            *)
C19_CheckpointOnlyAfterSuccess ==
    LET values == ProgressValues
    IN \A i \in 1..Len(values) :
          \A op \in CheckpointOps(values[i]) : Invoked(op) /\ Succeeded(op)

(* C19, amended: a checkpoint is emitted only after the method of its      *)
(* stage returned without raising: the engine operations of the stage were *)
(* invoked and, but for importReference, succeeded.  Checkpoint 20 is      *)
(* emitted also when importReference failed, since load_telemetry returns  *)
(* all the same; a failing run has no checkpoint of the stage that raised  *)
(* nor of a later one.                                                     *)
C19_CheckpointAfterStageReturned ==
    LET values == ProgressValues
    IN /\ \A i \in 1..Len(values) :
            \A op \in CheckpointOps(values[i]) :
                Invoked(op) /\ (op # "importReference" => Succeeded(op))
       /\ ImportRejected => \E i \in 1..Len(values) : values[i] = 20
       /\ \A k \in CallIdx :
            (~calls[k].ok /\ calls[k].op # "importReference")
                => \A i \in 1..Len(values) :
                      \A op \in CheckpointOps(values[i]) :
                          op = "addChunk" \/ op = "importReference"
                             \/ Rank(op) < Rank(calls[k].op)

(* the import failed, 20 was emitted, and the run failed later, in the     *)
(* dense stage, with 50 as its last checkpoint                             *)
C19_Witness ==
    /\ ImportRejected
    /\ FailedIn("buildDepthMaps")
    /\ ProgressValues = <<5, 15, 20, 35, 50>>

(* C20: from its start to its outcome the run keeps the settings, the     *)
(* telemetry file and the folders it was started with, whatever the        *)
(* widget's settings dialog does in between: no step changes them.         *)
C20_RunInputsUnchanged ==
    [][/\ settings' = settings
       /\ telemetry_file' = telemetry_file
       /\ images_folder' = images_folder
       /\ output_path' = output_path]_vars

(* the run is past matching, the settings dialog was accepted after the    *)
(* start with another accuracy, and matchPhotos got the accuracy the run   *)
(* was started with                                                        *)
C20_Witness ==
    /\ pc = "align"
    /\ ~settings_shared
    /\ get_accuracy(w_settings) # get_accuracy(settings)
    /\ \E k \in CallIdx :
         /\ calls[k].op = "matchPhotos"
         /\ calls[k].args[1] = get_downscale(get_accuracy(settings))

(* what C21 calls inputs start_processing must accept *)
InputsAcceptable(f) ==
    /\ Strip(f.images) # ""
    /\ f.folder_exists
    /\ f.supported > 0
    /\ Strip(f.output) # ""
    /\ f.output_usable

(* C21, as claimed: when the images folder exists and holds a supported    *)
(* image and the output folder exists or can be created, validate_inputs   *)
(* returns True, and start_processing, unless the telemetry dialog was     *)
(* cancelled, creates and starts a MetashapeProcessor.                     *)
C21_ValidInputsStartRun ==
    (starts > 0 /\ InputsAcceptable(last_start))
        => /\ last_start.valid
           /\ last_start.started \/ telemetry_file_edit # ""

(* a run this widget started has not delivered its outcome *)
RunPending ==
    /\ processor_thread # <<>>
    /\ \A i \in 1..delivered : ~IsOutcome(events[i])

ExpectedStages ==
    IF TelemetryGiven THEN StageOrder
    ELSE SelectSeq(StageOrder, LAMBDA op : op # "importReference")

(* how many of them are behind a run that stands at p *)
StagesBehind(p) ==
    LET tele == IF TelemetryGiven THEN 1 ELSE 0
    IN CASE p \in {"start", "load_images"} -> 0
         [] p = "telemetry" -> 1
         [] p = "match"     -> 1 + tele
         [] p = "align"     -> 2 + tele
         [] p = "dense"     -> 3 + tele
         [] p = "ortho"     -> 5 + tele
         [] p = "export"    -> 6 + tele
         [] p = "finish"    -> 7 + tele

(* C23: the stage operations a run executes, and their order, are fixed by *)
(* whether the telemetry stage applies and by where the run failed, and by *)
(* no settings value: they are the first operations of the one pipeline    *)
(* sequence (with the dense build in it, whatever build_dense_cloud is),   *)
(* as many as the position of the run says, all of them in a run that      *)
(* succeeded, and up to the failing call in a run that failed.             *)
C23_StagesIndependentOfSettings ==
    LET done     == StageCalls
        n        == Len(done)
        expected == ExpectedStages
    IN /\ n <= Len(expected)
       /\ \A k \in 1..n : done[k].op = expected[k]
       /\ pc \notin {"except", "done"} => n = StagesBehind(pc)
       /\ EndedInSuccess => n = Len(expected)
       /\ \A k \in 1..n :
            (~done[k].ok /\ done[k].op # "importReference")
                => k = n /\ pc \in {"except", "done"}
       /\ (pc = "except" \/ EndedInFailure) => (n = 0 \/ ~done[n].ok)

(* a run with build_dense_cloud = False and adaptive_fitting = False ended *)
(* in success, the dense build among its stages                            *)
C23_Witness ==
    /\ EndedInSuccess
    /\ ~DictGet(settings, "build_dense_cloud", TRUE)
    /\ ~DictGet(settings, "adaptive_fitting", TRUE)
    /\ [k \in 1..Len(StageCalls) |-> StageCalls[k].op] = ExpectedStages
    /\ \E k \in CallIdx : calls[k].op = "buildDepthMaps" /\ calls[k].ok

====
